---- MODULE Spec2Model ----
(***************************************************************************)
(* Model of laxels/llm: the exponential-backoff executor (request.ts), the *)
(* stream orchestrator and the chunk transformer (stream.ts).              *)
(***************************************************************************)
EXTENDS Integers, Sequences, FiniteSets, TLC

VARIABLES
    \* ---- withExponentialBackoff (one invocation) ----
    caller,               \* who invoked the executor: "direct" or "getAPIStream"
    maxRetries,           \* parameter
    initialRetryDelayMS,  \* parameter
    maxJitterMS,          \* parameter
    retryCount,           \* let retryCount
    pc,                   \* "attempt" | "waiting" | "returned" | "thrown" | "idle"
    delayMS,              \* argument of the wait(...) in progress
    result,               \* value the invocation returned
    thrown,               \* error the invocation threw
    outcomes,             \* observation: outcome of every fn() call so far
    waits,                \* observation: every wait(...) of a direct invocation
    \* ---- a second withExponentialBackoff invocation in flight ----
    other,                \* its retryCount, pc, delayMS, result, thrown, outcomes, waits
    \* ---- getAPIStream / getResponseStream ----
    apiResponse,          \* what getAPIStream returned
    log,                  \* console.error output of getAPIStream
    grs,                  \* getResponseStream: "pending" | "returned" | "threw" | "idle"
    grsError,             \* message of the Error getResponseStream threw
    responseStream,       \* the stream getResponseStream returned
    \* ---- ModifyChunkStream and streamChatResponse ----
    inputLines,           \* observation: the lines each transport chunk was made of
    transport,            \* transport chunks not yet written to the transform
    written,              \* observation: chunks _transform was called with
    pushed,               \* observation: what each _transform call pushed
    readable,             \* readable side of the transform: buffers not yet read
    ended,                \* the transport stream has ended
    handlers,             \* whether onData / onEnd were supplied
    responseStr,          \* let responseStr
    cpc,                  \* streamChatResponse: "reading" | "stop" | "ended" | "threw" | "idle"
    onDataCalls,          \* observation: arguments of the onData calls
    onEndCalls            \* observation: number of onEnd calls

backoffVars == <<caller, maxRetries, initialRetryDelayMS, maxJitterMS, retryCount,
                 pc, delayMS, result, thrown, outcomes, waits>>
orchVars == <<apiResponse, log, grs, grsError, responseStream>>
streamVars == <<inputLines, transport, written, pushed, readable, ended, handlers,
                responseStr, cpc, onDataCalls, onEndCalls>>
concurrentVars == <<other>>
vars == <<backoffVars, orchVars, streamVars, concurrentVars>>

----------------------------------------------------------------------------
(* Bounds of the model *)

MaxRetriesBound == 3
MaxJitterBound == 2
MaxConcurrentRetries == 2

----------------------------------------------------------------------------
(* Constants of request.ts *)

DEFAULT_MAX_RETRIES == 3
DEFAULT_INITIAL_RETRY_DELAY_MS == 1000
DEFAULT_MAX_JITTER_MS == 1000

(* Errors an operation can reject with.  isAxios / responseMessage are what *)
(* getAPIStream's catch block inspects.                                      *)
NoError == [id |-> "none", isAxios |-> FALSE, responseMessage |-> "undefined"]
ErrRateLimit == [id |-> "AxiosError: Request failed with status code 429",
                 isAxios |-> TRUE, responseMessage |-> "Rate limit reached"]
ErrTimeout == [id |-> "AxiosError: timeout of 2000ms exceeded",
               isAxios |-> TRUE, responseMessage |-> "undefined"]
ErrOther == [id |-> "TypeError: fetch failed",
             isAxios |-> FALSE, responseMessage |-> "undefined"]
Errors == {ErrRateLimit, ErrTimeout, ErrOther}

NoResult == "none"
NoStream == [source |-> "none", through |-> "none"]
ApiStream == "apiResponseStream"
Results(c) == IF c = "getAPIStream" THEN {ApiStream} ELSE {"r1", "r2"}
FnErrors(c) == IF c = "getAPIStream" THEN Errors ELSE {ErrRateLimit, ErrOther}

Success(v) == [ok |-> TRUE, value |-> v, err |-> NoError]
Failure(e) == [ok |-> FALSE, value |-> NoResult, err |-> e]

\* no second invocation is in flight
NoInvocation == [retryCount |-> 0, pc |-> "idle", delayMS |-> 0, result |-> NoResult,
                 thrown |-> NoError, outcomes |-> <<>>, waits |-> <<>>]

\* no stream is being transformed or consumed
StreamIdle ==
    /\ inputLines = <<>>
    /\ transport = <<>>
    /\ written = <<>>
    /\ pushed = <<>>
    /\ readable = <<>>
    /\ ended = FALSE
    /\ handlers = FALSE
    /\ responseStr = <<>>
    /\ cpc = "idle"
    /\ onDataCalls = <<>>
    /\ onEndCalls = 0

----------------------------------------------------------------------------
(* withExponentialBackoff *)

shouldRetryOffByOne == retryCount <= maxRetries

shouldRetryOnceAtLeast == retryCount < maxRetries \/ retryCount < 1

shouldRetry == retryCount < maxRetries

JitterDrawsInclusive(m) == 0 .. m

\* Math.floor(Math.random() * maxJitterMS), Math.random() in [0, 1)
JitterDraws(m) == IF m = 0 THEN {0} ELSE 0 .. (m - 1)

DelayOfJitterUnscaled(initial, jitterMS, count) == initial * (2 ^ count) + jitterMS

DelayOf(initial, jitterMS, count) == (initial + jitterMS) * (2 ^ count)

InitBackoff ==
    /\ caller = "direct"
    /\ maxRetries \in -1 .. MaxRetriesBound
    /\ initialRetryDelayMS \in {0, 1, DEFAULT_INITIAL_RETRY_DELAY_MS}
    /\ maxJitterMS \in 0 .. MaxJitterBound
    /\ retryCount = 0
    /\ pc = "attempt"
    /\ delayMS = 0
    /\ result = NoResult
    /\ thrown = NoError
    /\ outcomes = <<>>
    /\ waits = <<>>
    /\ other = NoInvocation
    /\ apiResponse = "none"
    /\ log = <<>>
    /\ grs = "idle"
    /\ grsError = "none"
    /\ responseStream = NoStream
    /\ StreamIdle

AttemptSucceedsKeepsLooping ==
    /\ pc = "attempt"
    /\ \E v \in Results(caller) :
        /\ outcomes' = Append(outcomes, Success(v))
        /\ result' = v
    /\ pc' = IF shouldRetry THEN "attempt" ELSE "returned"
    /\ UNCHANGED <<caller, maxRetries, initialRetryDelayMS, maxJitterMS, retryCount,
                   delayMS, thrown, waits, orchVars, streamVars, concurrentVars>>

\* try { return await fn(); }
AttemptSucceeds ==
    /\ pc = "attempt"
    /\ \E v \in Results(caller) :
        /\ outcomes' = Append(outcomes, Success(v))
        /\ result' = v
    /\ pc' = "returned"
    /\ UNCHANGED <<caller, maxRetries, initialRetryDelayMS, maxJitterMS, retryCount,
                   delayMS, thrown, waits, orchVars, streamVars, concurrentVars>>

AttemptFailsIncrementsFirst ==
    /\ pc = "attempt"
    /\ \E e \in FnErrors(caller) :
        /\ outcomes' = Append(outcomes, Failure(e))
        /\ IF ~shouldRetry
           THEN /\ pc' = "thrown"
                /\ thrown' = e
                /\ UNCHANGED <<delayMS, waits>>
           ELSE /\ pc' = "waiting"
                /\ \E jitterMS \in JitterDraws(maxJitterMS) :
                    /\ delayMS' = DelayOf(initialRetryDelayMS, jitterMS, retryCount + 1)
                    /\ waits' = IF caller = "direct"
                                THEN Append(waits, [count |-> retryCount + 1,
                                                    jitter |-> jitterMS,
                                                    delay |-> delayMS'])
                                ELSE waits
                /\ UNCHANGED thrown
    /\ UNCHANGED <<caller, maxRetries, initialRetryDelayMS, maxJitterMS, retryCount,
                   result, orchVars, streamVars, concurrentVars>>

\* catch (err) { if (!shouldRetry()) throw err; await waitBeforeRetry(); ...
AttemptFails ==
    /\ pc = "attempt"
    /\ \E e \in FnErrors(caller) :
        /\ outcomes' = Append(outcomes, Failure(e))
        /\ IF ~shouldRetry
           THEN /\ pc' = "thrown"
                /\ thrown' = e
                /\ UNCHANGED <<delayMS, waits>>
           ELSE /\ pc' = "waiting"
                /\ \E jitterMS \in JitterDraws(maxJitterMS) :
                    /\ delayMS' = DelayOf(initialRetryDelayMS, jitterMS, retryCount)
                    /\ waits' = IF caller = "direct"
                                THEN Append(waits, [count |-> retryCount,
                                                    jitter |-> jitterMS,
                                                    delay |-> delayMS'])
                                ELSE waits
                /\ UNCHANGED thrown
    /\ UNCHANGED <<caller, maxRetries, initialRetryDelayMS, maxJitterMS, retryCount,
                   result, orchVars, streamVars, concurrentVars>>

\* ... the wait(delayMS) resolves; retryCount++; next iteration of while (true)
WaitDone ==
    /\ pc = "waiting"
    /\ retryCount' = retryCount + 1
    /\ delayMS' = 0
    /\ pc' = "attempt"
    /\ UNCHANGED <<caller, maxRetries, initialRetryDelayMS, maxJitterMS,
                   result, thrown, outcomes, waits, orchVars, streamVars, concurrentVars>>

NextBackoff == AttemptSucceeds \/ AttemptFails \/ WaitDone

SpecBackoff == InitBackoff /\ [][NextBackoff]_vars

\* every await of the loop settles: an attempt resolves or rejects, a wait's
\* timer fires
SpecBackoffFair == SpecBackoff /\ WF_vars(NextBackoff)

----------------------------------------------------------------------------
(* Properties of withExponentialBackoff *)

AllFailed == \A i \in 1 .. Len(outcomes) : ~outcomes[i].ok

\* C1: for maxRetries n >= 0 an operation that fails on every attempt is invoked
\* exactly n + 1 times, and the invocation then throws the error of the operation
\* itself (the one of the last attempt), unchanged.
RetryBudget ==
    maxRetries >= 0 =>
        /\ Len(outcomes) <= maxRetries + 1
        /\ pc = "thrown" =>
              /\ AllFailed
              /\ Len(outcomes) = maxRetries + 1
              /\ thrown = outcomes[Len(outcomes)].err
              /\ thrown \in FnErrors(caller)
        /\ (AllFailed /\ Len(outcomes) = maxRetries + 1) => pc = "thrown"

RetryBudgetWitness ==
    /\ pc = "thrown"
    /\ maxRetries = 2
    /\ Len(outcomes) = 3
    /\ thrown = ErrOther
    /\ outcomes[1].err = ErrRateLimit

\* C2: the invocation returns the value of the first successful attempt among the
\* first maxRetries + 1, at once: a success is always the last attempt made, and
\* no wait follows it.
FirstSuccessReturned ==
    /\ \A i \in 1 .. Len(outcomes) :
          outcomes[i].ok => /\ i = Len(outcomes)
                            /\ pc = "returned"
                            /\ result = outcomes[i].value
    /\ pc = "returned" =>
          /\ Len(outcomes) >= 1
          /\ outcomes[Len(outcomes)].ok
          /\ Len(outcomes) <= (IF maxRetries > 0 THEN maxRetries ELSE 0) + 1
          /\ Len(waits) = Len(outcomes) - 1
          /\ retryCount = Len(outcomes) - 1
          /\ delayMS = 0

FirstSuccessReturnedWitness ==
    /\ pc = "returned"
    /\ Len(outcomes) = 3
    /\ result = "r2"
    /\ maxRetries = 3

WaitFormula(w) ==
    /\ w.delay = (initialRetryDelayMS + w.jitter) * (2 ^ w.count)
    /\ w.jitter \in 0 .. maxJitterMS
    /\ maxJitterMS = 0 => w.jitter = 0

\* C3 as stated: every wait is (initialRetryDelayMS + jitter) * 2^k with jitter in
\* 0 .. maxJitterMS; with maxJitterMS = 0 the jitter is 0 and consecutive delays
\* are strictly increasing with ratio 2.
BackoffDelayOriginal ==
    /\ \A k \in 1 .. Len(waits) : waits[k].count = k - 1 /\ WaitFormula(waits[k])
    /\ maxJitterMS = 0 =>
          \A k \in 1 .. Len(waits) - 1 :
              /\ waits[k + 1].delay = 2 * waits[k].delay
              /\ waits[k + 1].delay > waits[k].delay

\* C3 amended: the same, the strict increase being claimed for
\* initialRetryDelayMS > 0 only (with initialRetryDelayMS = 0 every delay is 0).
BackoffDelay ==
    /\ \A k \in 1 .. Len(waits) : waits[k].count = k - 1 /\ WaitFormula(waits[k])
    /\ pc = "waiting" => delayMS = waits[Len(waits)].delay
    /\ maxJitterMS = 0 =>
          \A k \in 1 .. Len(waits) - 1 :
              /\ waits[k + 1].delay = 2 * waits[k].delay
              /\ initialRetryDelayMS > 0 => waits[k + 1].delay > waits[k].delay

BackoffDelayWitness ==
    /\ maxJitterMS = 0
    /\ initialRetryDelayMS = DEFAULT_INITIAL_RETRY_DELAY_MS
    /\ Len(waits) = 3
    /\ waits[1].delay = 1000 /\ waits[2].delay = 2000 /\ waits[3].delay = 4000
    /\ pc = "returned"

----------------------------------------------------------------------------
(* getAPIStream and getResponseStream (stream.ts) *)

GENERIC_ERROR == "Error getting response from OpenAI"
NULL == "null"

\* err.response?.data?.error?.message ?? err
UpstreamMessage(err) ==
    IF err.responseMessage # "undefined" THEN err.responseMessage ELSE err.id

DiagnosticNoMessage(err) == [prefix |-> "", text |-> err.id]

\* what the catch block of getAPIStream writes with console.error
Diagnostic(err) ==
    IF err.isAxios
    THEN [prefix |-> "Error generating response: ", text |-> UpstreamMessage(err)]
    ELSE [prefix |-> "", text |-> err.id]

\* apiResponse.pipe(new ModifyChunkStream(modifyChunk))
Pipe(source) == [source |-> source, through |-> "ModifyChunkStream(modifyChunk)"]

InitOrch ==
    /\ caller = "getAPIStream"
    /\ maxRetries = DEFAULT_MAX_RETRIES
    /\ initialRetryDelayMS = DEFAULT_INITIAL_RETRY_DELAY_MS
    /\ maxJitterMS = DEFAULT_MAX_JITTER_MS
    /\ retryCount = 0
    /\ pc = "attempt"
    /\ delayMS = 0
    /\ result = NoResult
    /\ thrown = NoError
    /\ outcomes = <<>>
    /\ waits = <<>>
    /\ other = NoInvocation
    /\ apiResponse = "none"
    /\ log = <<>>
    /\ grs = "pending"
    /\ grsError = "none"
    /\ responseStream = NoStream
    /\ StreamIdle

\* getAPIStream: return await withExponentialBackoff(...)
GetAPIStreamReturn ==
    /\ caller = "getAPIStream"
    /\ pc = "returned"
    /\ apiResponse = "none"
    /\ apiResponse' = result
    /\ UNCHANGED <<backoffVars, streamVars, concurrentVars, log, grs, grsError, responseStream>>

\* getAPIStream: catch (err) { console.error(...); return null; }
GetAPIStreamCatch ==
    /\ caller = "getAPIStream"
    /\ pc = "thrown"
    /\ apiResponse = "none"
    /\ log' = Append(log, Diagnostic(thrown))
    /\ apiResponse' = NULL
    /\ UNCHANGED <<backoffVars, streamVars, concurrentVars, grs, grsError, responseStream>>

GetResponseStreamNoNullCheck ==
    /\ grs = "pending"
    /\ apiResponse # "none"
    /\ grs' = "returned"
    /\ responseStream' = Pipe(apiResponse)
    /\ UNCHANGED <<backoffVars, streamVars, concurrentVars, apiResponse, log, grsError>>

\* getResponseStream after `await getAPIStream(...)`
GetResponseStreamResume ==
    /\ grs = "pending"
    /\ apiResponse # "none"
    /\ IF apiResponse = NULL
       THEN /\ grs' = "threw"
            /\ grsError' = GENERIC_ERROR
            /\ UNCHANGED responseStream
       ELSE /\ grs' = "returned"
            /\ responseStream' = Pipe(apiResponse)
            /\ UNCHANGED grsError
    /\ UNCHANGED <<backoffVars, streamVars, concurrentVars, apiResponse, log>>

NextOrch ==
    \/ AttemptSucceeds
    \/ AttemptFails
    \/ WaitDone
    \/ GetAPIStreamReturn
    \/ GetAPIStreamCatch
    \/ GetResponseStreamResume

SpecOrch == InitOrch /\ [][NextOrch]_vars

\* C6: getResponseStream throws, and returns no stream, exactly when all
\* maxRetries + 1 = 4 transport requests failed (it makes no request of its
\* own beyond them); when one of them succeeds it returns the transformed
\* stream and does not throw.
NoStreamWhenExhausted ==
    /\ Len(outcomes) <= DEFAULT_MAX_RETRIES + 1
    /\ grs = "threw" =>
          /\ AllFailed
          /\ Len(outcomes) = 4
          /\ responseStream = NoStream
          /\ grsError # "none"
    /\ grs = "returned" =>
          /\ ~AllFailed
          /\ outcomes[Len(outcomes)].ok
          /\ responseStream = Pipe(ApiStream)
          /\ grsError = "none"
    /\ (AllFailed /\ Len(outcomes) = 4) => grs # "returned" /\ responseStream = NoStream
    /\ ~AllFailed => grs # "threw"
    /\ grs # "pending" => pc \in {"returned", "thrown"}

NoStreamWhenExhaustedWitness ==
    /\ grs = "threw"
    /\ Len(outcomes) = 4
    /\ outcomes[4].err = ErrTimeout

StreamWhenAttemptSucceedsWitness ==
    /\ grs = "returned"
    /\ Len(outcomes) = 3

\* C7 as stated: the error getResponseStream throws carries the upstream error
\* message of the failed transport request.
ThrownErrorSurfacesUpstream ==
    grs = "threw" => grsError = UpstreamMessage(thrown)

\* C7 amended: getResponseStream throws the fixed error "Error getting response
\* from OpenAI"; the upstream message of the last failed request is written to
\* the diagnostic log (console.error) and is not part of the thrown error.
UpstreamMessageLoggedOnly ==
    /\ grs = "threw" =>
          /\ grsError = GENERIC_ERROR
          /\ grsError # UpstreamMessage(thrown)
    /\ apiResponse = NULL =>
          /\ Len(log) = 1
          /\ thrown = outcomes[Len(outcomes)].err
          /\ thrown.isAxios =>
                /\ log[1].prefix = "Error generating response: "
                /\ log[1].text = UpstreamMessage(thrown)
          /\ ~thrown.isAxios => log[1] = [prefix |-> "", text |-> thrown.id]
    /\ apiResponse # NULL => log = <<>>

UpstreamMessageLoggedOnlyWitness ==
    /\ grs = "threw"
    /\ thrown = ErrRateLimit
    /\ log[1].text = "Rate limit reached"

----------------------------------------------------------------------------
(* Text of a transport chunk.  A text is a sequence of tokens; a token is a  *)
(* run of characters the transformer never looks inside: a space, a line     *)
(* feed, the field name "data:", the literal "[DONE]", the text of one JSON  *)
(* value, or other text.                                                     *)

NoJSON == [shape |-> "none", content |-> <<>>, finish_reason |-> "none"]
Tok(t) == [t |-> t, v |-> NoJSON]
SP == Tok(" ")
LF == Tok("<LF>")
DATA == Tok("data:")
DONE == Tok("[DONE]")
TXT == Tok("text")
\* the text of the JSON value v
J(v) == [t |-> "json", v |-> v]

\* {"choices":[{"delta":{"content":c},"finish_reason":f}]}; c = <<>>: no content
Choice(c, f) == [shape |-> "ok", content |-> c, finish_reason |-> f]
\* {"choices":[]}
EmptyChoices == [shape |-> "empty", content |-> <<>>, finish_reason |-> "none"]
\* {"error":{...}}: a JSON object without choices
NoChoices == [shape |-> "nochoices", content |-> <<>>, finish_reason |-> "none"]
\* {"choices":[{"finish_reason":f}]}: choices[0] has no delta
NoDelta(f) == [shape |-> "nodelta", content |-> <<>>, finish_reason |-> f]

JSON_LINE_SEPARATOR == "___BASILISK_JSON_LINE_SEPARATOR___"
DATA_CHUNK_HEADER == <<DATA, SP>>
DATA_CHUNK_TERMINATOR == <<DONE>>
STOP_FINISH_REASON == "stop"

\* Lines a transport chunk is made of
LineBlank == <<>>
LineComment == <<TXT>>
LineDone == <<DATA, SP, DONE>>
LineDonePadded == <<SP, DATA, SP, DONE, SP>>
LineDoneTwoSpaces == <<DATA, SP, SP, DONE>>
LineInvalid == <<DATA, SP, TXT>>
LineHel == <<DATA, SP, J(Choice(<<"Hel">>, "null"))>>
LineLoStop == <<DATA, SP, J(Choice(<<"lo">>, "stop"))>>
LineXStop == <<DATA, SP, J(Choice(<<"X">>, "stop"))>>
LineStopOnly == <<DATA, SP, J(Choice(<<>>, "stop"))>>
LineXLength == <<SP, DATA, SP, SP, J(Choice(<<"X">>, "length"))>>
LineSep == <<DATA, SP, J(Choice(<<"a", JSON_LINE_SEPARATOR, "b">>, "null"))>>
LineEmptyChoices == <<DATA, SP, J(EmptyChoices)>>
LineNoChoices == <<DATA, SP, J(NoChoices)>>
LineNoDeltaStop == <<DATA, SP, J(NoDelta("stop"))>>
\* {"choices":[{"delta":{"role":"assistant"},"finish_reason":null}]}
LineRole == <<DATA, SP, J(Choice(<<>>, "null"))>>

RawLines == {LineBlank, LineComment, LineDone, LineDonePadded, LineDoneTwoSpaces,
             LineInvalid, LineHel, LineLoStop, LineXStop, LineStopOnly, LineXLength,
             LineSep, LineEmptyChoices, LineNoChoices, LineNoDeltaStop, LineRole}

SeqsUpTo(S, n) == UNION {[1 .. k -> S] : k \in 0 .. n}

RECURSIVE JoinLines(_)
\* the text of a chunk made of these lines, a line feed between two lines
JoinLines(lines) ==
    IF lines = <<>> THEN <<>>
    ELSE IF Len(lines) = 1 THEN lines[1]
    ELSE lines[1] \o <<LF>> \o JoinLines(Tail(lines))

IsSpace(tok) == tok = SP \/ tok = LF

RECURSIVE TrimStart(_)
TrimStart(text) ==
    IF text # <<>> /\ IsSpace(Head(text)) THEN TrimStart(Tail(text)) ELSE text

RECURSIVE TrimEnd(_)
TrimEnd(text) ==
    IF text # <<>> /\ IsSpace(text[Len(text)])
    THEN TrimEnd(SubSeq(text, 1, Len(text) - 1))
    ELSE text

\* String.prototype.trim
Trim(text) == TrimEnd(TrimStart(text))

RECURSIVE SplitOn(_, _, _)
\* String.prototype.split(sep) for a one-token separator: cur is the piece being read
SplitOn(text, sep, cur) ==
    IF text = <<>> THEN <<cur>>
    ELSE IF Head(text) = sep THEN <<cur>> \o SplitOn(Tail(text), sep, <<>>)
    ELSE SplitOn(Tail(text), sep, Append(cur, Head(text)))

\* String.prototype.startsWith
StartsWith(text, prefix) ==
    /\ Len(text) >= Len(prefix)
    /\ SubSeq(text, 1, Len(prefix)) = prefix

\* String.prototype.slice(n)
Slice(text, n) == SubSeq(text, n + 1, Len(text))

Threw == [threw |-> TRUE, content |-> <<>>, finish_reason |-> "none"]

\* lines 172-179: JSON.parse(data), choices.length, choices[0], delta.content
ParseLine(data) ==
    LET json == Trim(data)
    IN  IF ~(Len(json) = 1 /\ json[1].t = "json") THEN Threw   \* SyntaxError
        ELSE LET v == json[1].v
             IN  IF v.shape # "ok" THEN Threw   \* TypeError, or `No choices returned`
                 ELSE [threw |-> FALSE, content |-> v.content,
                       finish_reason |-> v.finish_reason]

----------------------------------------------------------------------------
(* modifyChunk and ModifyChunkStream._transform *)

MaxLines == 3

RECURSIVE Scan(_, _, _)

OnTerminatorContinue(dataStrs, i, acc) == Scan(dataStrs, i + 1, acc)

\* line 168-170: if (data === DATA_CHUNK_TERMINATOR) break;
OnTerminator(dataStrs, i, acc) == acc

AbsorbAnyFinishReason(acc, parsed) ==
    [tokens |-> IF parsed.content # <<>> THEN Append(acc.tokens, parsed.content)
                ELSE acc.tokens,
     finished |-> acc.finished \/ parsed.finish_reason # "null"]

AbsorbPrepends(acc, parsed) ==
    [tokens |-> IF parsed.content # <<>> THEN <<parsed.content>> \o acc.tokens
                ELSE acc.tokens,
     finished |-> acc.finished \/ parsed.finish_reason = STOP_FINISH_REASON]

\* lines 180-185: if (content) tokens.push(content); if (finish_reason === `stop`) ...
Absorb(acc, parsed) ==
    [tokens |-> IF parsed.content # <<>> THEN Append(acc.tokens, parsed.content)
                ELSE acc.tokens,
     finished |-> acc.finished \/ parsed.finish_reason = STOP_FINISH_REASON]

AfterLineStopEndsScan(dataStrs, i, acc) ==
    IF acc.finished THEN acc ELSE Scan(dataStrs, i + 1, acc)

\* the end of the loop body: the next iteration of for (const dataStr of dataStrs)
AfterLine(dataStrs, i, acc) == Scan(dataStrs, i + 1, acc)

OnThrowAbandonsChunk(dataStrs, i, acc) == acc

\* lines 186-188: catch (err) { console.error(err); }, then the next line
OnThrow(dataStrs, i, acc) == Scan(dataStrs, i + 1, acc)

\* lines 163-189: the loop over dataStrs from index i, acc = [tokens, finished]
Scan(dataStrs, i, acc) ==
    IF i > Len(dataStrs) THEN acc
    ELSE LET dataStr == dataStrs[i]
         IN  IF ~StartsWith(dataStr, DATA_CHUNK_HEADER)
             THEN Scan(dataStrs, i + 1, acc)                       \* continue
             ELSE LET data == Slice(dataStr, Len(DATA_CHUNK_HEADER))
                  IN  IF data = DATA_CHUNK_TERMINATOR
                      THEN OnTerminator(dataStrs, i, acc)          \* break
                      ELSE LET parsed == ParseLine(data)
                           IN  IF parsed.threw
                               THEN OnThrow(dataStrs, i, acc)      \* catch (err)
                               ELSE AfterLine(dataStrs, i, Absorb(acc, parsed))

RECURSIVE Concat(_)
\* tokens.join(``)
Concat(tokens) == IF tokens = <<>> THEN <<>> ELSE Head(tokens) \o Concat(Tail(tokens))

\* Text of a JSON-serialised StreamData: the characters around the value of data
OPEN == "{data:"
CLOSE_TRUE == ",finished:true}"
CLOSE_FALSE == ",finished:false}"

\* JSON.stringify(streamData): the characters of data stand between the brackets
Stringify(streamData) ==
    <<OPEN>> \o streamData.data
             \o <<IF streamData.finished THEN CLOSE_TRUE ELSE CLOSE_FALSE>>

\* lines 157-161: chunk.toString().trim().split(`\n`).map((l) => l.trim())
DataStrs(chunk) ==
    LET pieces == SplitOn(Trim(chunk), LF, <<>>)
    IN  [k \in 1 .. Len(pieces) |-> Trim(pieces[k])]

\* lines 153-193
modifyChunk(chunk) ==
    LET acc == Scan(DataStrs(chunk), 1, [tokens |-> <<>>, finished |-> FALSE])
        streamData == [data |-> Concat(acc.tokens), finished |-> acc.finished]
    IN  Stringify(streamData) \o <<JSON_LINE_SEPARATOR>>

PushSkipsEmptyRecord(buffers, chunk) ==
    IF chunk = Stringify([data |-> <<>>, finished |-> FALSE]) \o <<JSON_LINE_SEPARATOR>>
    THEN buffers
    ELSE Append(buffers, chunk)

\* Readable.push of a byte stream: a chunk of length 0 adds nothing
Push(buffers, chunk) == IF chunk = <<>> THEN buffers ELSE Append(buffers, chunk)

InitChunk ==
    /\ caller = "direct"
    /\ maxRetries = DEFAULT_MAX_RETRIES
    /\ initialRetryDelayMS = DEFAULT_INITIAL_RETRY_DELAY_MS
    /\ maxJitterMS = DEFAULT_MAX_JITTER_MS
    /\ retryCount = 0
    /\ pc = "idle"
    /\ delayMS = 0
    /\ result = NoResult
    /\ thrown = NoError
    /\ outcomes = <<>>
    /\ waits = <<>>
    /\ other = NoInvocation
    /\ apiResponse = "none"
    /\ log = <<>>
    /\ grs = "idle"
    /\ grsError = "none"
    /\ responseStream = NoStream
    /\ \E lines \in SeqsUpTo(RawLines, MaxLines) :
        /\ inputLines = <<lines>>
        /\ transport = <<JoinLines(lines)>>
    /\ written = <<>>
    /\ pushed = <<>>
    /\ readable = <<>>
    /\ ended = FALSE
    /\ handlers = FALSE
    /\ responseStr = <<>>
    /\ cpc = "idle"
    /\ onDataCalls = <<>>
    /\ onEndCalls = 0

TransformKeepsEarlierChunks ==
    /\ transport # <<>>
    /\ cpc \in {"idle", "reading"}
    /\ LET chunk == Head(transport)
           modifiedChunk == modifyChunk(JoinLines(Append(written, chunk)))
       IN  /\ written' = Append(written, chunk)
           /\ pushed' = Append(pushed, Push(<<>>, modifiedChunk))
           /\ readable' = Push(readable, modifiedChunk)
    /\ transport' = Tail(transport)
    /\ UNCHANGED <<backoffVars, orchVars, concurrentVars, inputLines, ended, handlers, responseStr,
                   cpc, onDataCalls, onEndCalls>>

\* ModifyChunkStream._transform(chunk, encoding, callback), lines 128-137
Transform ==
    /\ transport # <<>>
    /\ cpc \in {"idle", "reading"}
    /\ LET chunk == Head(transport)
           modifiedChunk == modifyChunk(chunk)
       IN  /\ written' = Append(written, chunk)
           /\ pushed' = Append(pushed, Push(<<>>, modifiedChunk))
           /\ readable' = Push(readable, modifiedChunk)
    /\ transport' = Tail(transport)
    /\ UNCHANGED <<backoffVars, orchVars, concurrentVars, inputLines, ended, handlers, responseStr,
                   cpc, onDataCalls, onEndCalls>>

NextChunk == Transform

SpecChunk == InitChunk /\ [][NextChunk]_vars

----------------------------------------------------------------------------
(* Properties of the Chunk Transformer, stated on the lines of the chunk *)

\* the lines that read `data: [DONE]`
TerminatorLines == {LineDone, LineDonePadded}
\* well-formed data lines whose JSON has finish_reason "stop"
StopLines == {LineLoStop, LineXStop, LineStopOnly}
\* data lines whose JSON has choices[0].finish_reason = "stop", well-formed or not
StopReasonLines == StopLines \cup {LineNoDeltaStop}

\* the content fragment of a well-formed data line
ContentOfLine(line) ==
    CASE line = LineHel -> <<"Hel">>
      [] line = LineLoStop -> <<"lo">>
      [] line = LineXStop -> <<"X">>
      [] line = LineXLength -> <<"X">>
      [] line = LineSep -> <<"a", JSON_LINE_SEPARATOR, "b">>
      [] OTHER -> <<>>

\* the lines before the first terminator line
BeforeTerminator(lines) ==
    LET ks == {k \in 1 .. Len(lines) : lines[k] \in TerminatorLines}
    IN  IF ks = {} THEN lines
        ELSE SubSeq(lines, 1, (CHOOSE k \in ks : \A m \in ks : k <= m) - 1)

RECURSIVE ContentsOf(_)
ContentsOf(lines) ==
    IF lines = <<>> THEN <<>> ELSE ContentOfLine(Head(lines)) \o ContentsOf(Tail(lines))

ExpectedData(lines) == ContentsOf(BeforeTerminator(lines))
ExpectedFinished(lines) ==
    \E k \in 1 .. Len(BeforeTerminator(lines)) : lines[k] \in StopLines

\* the record pushed by the i-th _transform call
Emitted(i) == pushed[i][1]
EmittedData(i) == SubSeq(Emitted(i), 2, Len(Emitted(i)) - 2)
EmittedFinished(i) == Emitted(i)[Len(Emitted(i)) - 1] = CLOSE_TRUE

NoContentNoStop(lines) ==
    \A k \in 1 .. Len(lines) :
        ContentOfLine(lines[k]) = <<>> /\ lines[k] \notin StopReasonLines

\* C4: every _transform call pushes exactly one buffer, holding one record and the
\* separator; for a chunk with no content and no stop reason the record is
\* {data: "", finished: false}.
OnePushPerChunk ==
    /\ Len(pushed) = Len(written)
    /\ \A i \in 1 .. Len(written) :
          /\ Len(pushed[i]) = 1
          /\ Len(Emitted(i)) >= 3
          /\ Emitted(i)[1] = "{data:"
          /\ Emitted(i)[Len(Emitted(i)) - 1] \in {",finished:true}", ",finished:false}"}
          /\ Emitted(i)[Len(Emitted(i))] = JSON_LINE_SEPARATOR
          /\ NoContentNoStop(inputLines[i]) =>
                Emitted(i) = <<"{data:", ",finished:false}", JSON_LINE_SEPARATOR>>

OnePushPerChunkWitness ==
    /\ Len(written) = 1
    /\ inputLines[1] = <<LineDone>>
    /\ pushed[1] = <<(<<"{data:", ",finished:false}", JSON_LINE_SEPARATOR>>)>>

\* C8 as stated: finished is true iff some line of the chunk is a data line whose
\* JSON has choices[0].finish_reason = "stop", whatever else the chunk holds.
FinishedIffAnyStopLine ==
    \A i \in 1 .. Len(written) :
        EmittedFinished(i) <=>
            \E k \in 1 .. Len(inputLines[i]) : inputLines[i][k] \in StopReasonLines

\* C8 amended: finished is true iff some well-formed data line (choices[0] with a
\* delta) that stands before the first `data: [DONE]` line of the chunk has
\* finish_reason "stop".
FinishedIffStopBeforeTerminator ==
    \A i \in 1 .. Len(written) :
        EmittedFinished(i) <=> ExpectedFinished(inputLines[i])

FinishedIffStopBeforeTerminatorWitness ==
    /\ Len(written) = 1
    /\ inputLines[1] = <<LineXLength, LineStopOnly, LineDone>>
    /\ EmittedFinished(1)

\* C9: when line k of a chunk is `data: [DONE]`, the record is the one the lines
\* before k give: later lines add no content and set no finished flag, and the
\* record is pushed as usual.
TerminatorShortCircuit ==
    \A i \in 1 .. Len(written) :
        \A k \in 1 .. Len(inputLines[i]) :
            inputLines[i][k] \in TerminatorLines =>
                LET before == SubSeq(inputLines[i], 1, k - 1)
                IN  /\ Len(pushed[i]) = 1
                    /\ EmittedData(i) = ExpectedData(before)
                    /\ EmittedFinished(i) = ExpectedFinished(before)

TerminatorShortCircuitWitness ==
    /\ Len(written) = 1
    /\ inputLines[1] = <<LineHel, LineDone, LineLoStop>>
    /\ EmittedData(1) = <<"Hel">>
    /\ ~EmittedFinished(1)

\* C10: a stop line does not end the scan: in a chunk with a stop line the data
\* is the content of every well-formed data line before the terminator, the stop
\* line's own and that of the lines after it included; a stop line with content
\* "X" alone gives {data: "X", finished: true}.
StopDoesNotEndScan ==
    \A i \in 1 .. Len(written) :
        /\ ExpectedFinished(inputLines[i]) =>
              /\ EmittedFinished(i)
              /\ EmittedData(i) = ExpectedData(inputLines[i])
        /\ inputLines[i] = <<LineXStop>> =>
              Emitted(i) = <<"{data:", "X", ",finished:true}", JSON_LINE_SEPARATOR>>

StopDoesNotEndScanWitness ==
    /\ Len(written) = 1
    /\ inputLines[1] = <<LineXStop, LineHel, LineDone>>
    /\ EmittedData(1) = <<"X", "Hel">>
    /\ EmittedFinished(1)

----------------------------------------------------------------------------
(* streamChatResponse reading the stream getResponseStream returned *)

MaxChunks == 3

\* the chunks the transport delivers in this specification, each given by its lines
PipelineChunks == {<<LineHel>>, <<LineLoStop>>, <<LineSep>>,
                   <<LineDone, LineHel>>, <<LineXStop, LineHel>>}

\* line 65: JSON.parse(json) as StreamData
JSONParseRecord(json) ==
    IF /\ Len(json) >= 2
       /\ json[1] = OPEN
       /\ json[Len(json)] \in {CLOSE_TRUE, CLOSE_FALSE}
       /\ \A k \in 2 .. Len(json) - 1 : json[k] \notin {OPEN, CLOSE_TRUE, CLOSE_FALSE}
    THEN [threw |-> FALSE, data |-> SubSeq(json, 2, Len(json) - 1),
          finished |-> json[Len(json)] = CLOSE_TRUE]
    ELSE [threw |-> TRUE, data |-> <<>>, finished |-> FALSE]   \* SyntaxError

AccumulateOverwrites(str, data) == data

\* line 68: responseStr += data
Accumulate(str, data) == str \o data

RECURSIVE ConsumeJsonsIgnoresFinished(_, _, _)
ConsumeJsonsIgnoresFinished(jsons, i, st) ==
    IF i > Len(jsons) THEN st
    ELSE LET parsed == JSONParseRecord(jsons[i])
         IN  IF parsed.threw THEN [st EXCEPT !.status = "threw"]
             ELSE ConsumeJsonsIgnoresFinished(jsons, i + 1,
                      [st EXCEPT
                         !.onData = IF handlers THEN Append(@, parsed.data) ELSE @,
                         !.responseStr = Accumulate(@, parsed.data)])

RECURSIVE ConsumeJsons(_, _, _)
\* lines 64-74: the loop over the records of one read, from index i
ConsumeJsons(jsons, i, st) ==
    IF i > Len(jsons) THEN st
    ELSE LET parsed == JSONParseRecord(jsons[i])
         IN  IF parsed.threw THEN [st EXCEPT !.status = "threw"]
             ELSE LET st1 == [st EXCEPT
                                !.onData = IF handlers THEN Append(@, parsed.data) ELSE @,
                                !.responseStr = Accumulate(@, parsed.data)]
                  IN  IF parsed.finished
                      THEN [st1 EXCEPT !.onEnd = IF handlers THEN @ + 1 ELSE @,
                                       !.status = "stop"]
                      ELSE ConsumeJsons(jsons, i + 1, st1)

JsonsOfKeepsEmptyLines(jsonLines) == SplitOn(jsonLines, JSON_LINE_SEPARATOR, <<>>)

\* line 64: jsonLines.split(JSON_LINE_SEPARATOR).filter((l) => l)
JsonsOf(jsonLines) ==
    SelectSeq(SplitOn(jsonLines, JSON_LINE_SEPARATOR, <<>>), LAMBDA l : l # <<>>)

InitPipeline ==
    /\ caller = "getAPIStream"
    /\ maxRetries = DEFAULT_MAX_RETRIES
    /\ initialRetryDelayMS = DEFAULT_INITIAL_RETRY_DELAY_MS
    /\ maxJitterMS = DEFAULT_MAX_JITTER_MS
    /\ retryCount = 0
    /\ pc = "returned"
    /\ delayMS = 0
    /\ result = ApiStream
    /\ thrown = NoError
    /\ outcomes = <<Success(ApiStream)>>
    /\ waits = <<>>
    /\ other = NoInvocation
    /\ apiResponse = ApiStream
    /\ log = <<>>
    /\ grs = "returned"
    /\ grsError = "none"
    /\ responseStream = Pipe(ApiStream)
    /\ inputLines \in SeqsUpTo(PipelineChunks, MaxChunks)
    /\ transport = [i \in 1 .. Len(inputLines) |-> JoinLines(inputLines[i])]
    /\ written = <<>>
    /\ pushed = <<>>
    /\ readable = <<>>
    /\ ended = FALSE
    /\ handlers \in BOOLEAN
    /\ responseStr = <<>>
    /\ cpc = "reading"
    /\ onDataCalls = <<>>
    /\ onEndCalls = 0

\* the transport stream ends once all its chunks went through the transform
SourceEnds ==
    /\ cpc = "reading"
    /\ transport = <<>>
    /\ ~ended
    /\ ended' = TRUE
    /\ UNCHANGED <<backoffVars, orchVars, concurrentVars, inputLines, transport, written, pushed,
                   readable, handlers, responseStr, cpc, onDataCalls, onEndCalls>>

\* lines 61-75: one iteration of `for await (const chunk of responseStream)`;
\* the iterator's read() returns everything buffered, as one chunk
ReadChunk ==
    /\ cpc = "reading"
    /\ readable # <<>>
    /\ LET jsonLines == Concat(readable)
           st == ConsumeJsons(JsonsOf(jsonLines), 1,
                              [responseStr |-> responseStr, onData |-> onDataCalls,
                               onEnd |-> onEndCalls, status |-> "reading"])
       IN  /\ responseStr' = st.responseStr
           /\ onDataCalls' = st.onData
           /\ onEndCalls' = st.onEnd
           /\ cpc' = st.status
    /\ readable' = <<>>
    /\ UNCHANGED <<backoffVars, orchVars, concurrentVars, inputLines, transport, written, pushed,
                   ended, handlers>>

\* line 77: the stream ended with no finished record: return responseStr
ReturnAtEnd ==
    /\ cpc = "reading"
    /\ ended
    /\ readable = <<>>
    /\ cpc' = "ended"
    /\ UNCHANGED <<backoffVars, orchVars, concurrentVars, inputLines, transport, written, pushed,
                   readable, ended, handlers, responseStr, onDataCalls, onEndCalls>>

NextPipeline == Transform \/ SourceEnds \/ ReadChunk \/ ReturnAtEnd

SpecPipeline == InitPipeline /\ [][NextPipeline]_vars

\* the chunks up to and including the first whose record is finished (all
\* chunks when there is none)
UpToFirstFinished(chunks) ==
    LET fs == {i \in 1 .. Len(chunks) : ExpectedFinished(chunks[i])}
    IN  IF fs = {} THEN chunks
        ELSE SubSeq(chunks, 1, CHOOSE i \in fs : \A m \in fs : i <= m)

RECURSIVE DataOfChunks(_)
DataOfChunks(chunks) ==
    IF chunks = <<>> THEN <<>>
    ELSE ExpectedData(Head(chunks)) \o DataOfChunks(Tail(chunks))

ExpectedResponse(chunks) == DataOfChunks(UpToFirstFinished(chunks))

HasSeparator(data) == \E k \in 1 .. Len(data) : data[k] = JSON_LINE_SEPARATOR

\* C5 as stated: for any sequence of transport chunks the consumer returns the
\* concatenation of the data of the chunks up to and including the first
\* finished one.
PipelineResultAnyChunks ==
    cpc # "reading" =>
        /\ cpc \in {"stop", "ended"}
        /\ responseStr = ExpectedResponse(inputLines)

\* C5 amended: the same, provided no chunk up to and including the first finished
\* one has the separator string in its data; when one has, the consumer's
\* JSON.parse throws and nothing is returned.
PipelineResult ==
    LET counted == UpToFirstFinished(inputLines)
        collides == \E i \in 1 .. Len(counted) : HasSeparator(ExpectedData(counted[i]))
    IN  /\ cpc \in {"stop", "ended"} =>
              /\ ~collides
              /\ responseStr = ExpectedResponse(inputLines)
              /\ (cpc = "stop") <=> (\E i \in 1 .. Len(inputLines) :
                                        ExpectedFinished(inputLines[i]))
        /\ cpc = "threw" => collides

PipelineResultWitness ==
    /\ inputLines = <<(<<LineHel>>), (<<LineLoStop>>)>>
    /\ ~handlers
    /\ cpc = "stop"
    /\ responseStr = <<"Hel", "lo">>

PipelineResultExcludesLaterChunksWitness ==
    /\ inputLines = <<(<<LineHel>>), (<<LineXStop, LineHel>>), (<<LineLoStop>>)>>
    /\ cpc = "stop"
    /\ responseStr = <<"Hel", "X", "Hel">>

----------------------------------------------------------------------------
(* Properties settled on SpecChunk and SpecPipeline, continued *)

\* data lines whose payload is not JSON, or is JSON of an unexpected shape
MalformedLines == {LineInvalid, LineDoneTwoSpaces, LineEmptyChoices, LineNoChoices,
                   LineNoDeltaStop}

WithoutMalformed(lines) == SelectSeq(lines, LAMBDA l : l \notin MalformedLines)

\* C11: a malformed data line has no effect on the record: the record of a chunk
\* is the record of the same chunk with its malformed lines taken out, the lines
\* after a malformed one are still read, and a record is pushed all the same; one
\* invalid line between two content lines gives the two fragments concatenated.
MalformedLineSkipped ==
    \A i \in 1 .. Len(written) :
        /\ Len(pushed[i]) = 1
        /\ EmittedData(i) = ExpectedData(WithoutMalformed(inputLines[i]))
        /\ EmittedFinished(i) = ExpectedFinished(WithoutMalformed(inputLines[i]))
        /\ inputLines[i] = <<LineHel, LineInvalid, LineLoStop>> =>
              Emitted(i) = <<"{data:", "Hel", "lo", ",finished:true}", JSON_LINE_SEPARATOR>>
        /\ (\A k \in 1 .. Len(inputLines[i]) : inputLines[i][k] \in MalformedLines) =>
              Emitted(i) = <<"{data:", ",finished:false}", JSON_LINE_SEPARATOR>>

MalformedLineSkippedWitness ==
    /\ Len(written) = 1
    /\ inputLines[1] = <<LineHel, LineNoDeltaStop, LineXLength>>
    /\ EmittedData(1) = <<"Hel", "X">>
    /\ ~EmittedFinished(1)

\* well-formed data lines with no stop reason
PlainDataLines == {LineHel, LineXLength, LineSep, LineRole}

\* C12: a chunk made only of well-formed data lines with no stop reason and no
\* terminator gives one record with finished = false whose data is the
\* concatenation of the content fragments of its lines, in line order.
FramingConcatenates ==
    \A i \in 1 .. Len(written) :
        (\A k \in 1 .. Len(inputLines[i]) : inputLines[i][k] \in PlainDataLines) =>
            /\ Len(pushed[i]) = 1
            /\ ~EmittedFinished(i)
            /\ EmittedData(i) = ContentsOf(inputLines[i])

FramingConcatenatesWitness ==
    /\ Len(written) = 1
    /\ inputLines[1] = <<LineHel, LineRole, LineXLength>>
    /\ Emitted(1) = <<"{data:", "Hel", "X", ",finished:false}", JSON_LINE_SEPARATOR>>

\* the text of the record a chunk of these lines gives, followed by the separator
RecordTextOf(lines) ==
    <<"{data:">> \o ExpectedData(lines)
                 \o <<IF ExpectedFinished(lines) THEN ",finished:true}"
                      ELSE ",finished:false}">>
                 \o <<JSON_LINE_SEPARATOR>>

\* C13: the i-th _transform call is made with the i-th transport chunk and pushes
\* the record of that chunk alone; the buffers waiting on the readable side are
\* the last records pushed, in the order pushed, one buffer per chunk.
RecordsFollowChunkOrder ==
    /\ Len(pushed) = Len(written)
    /\ Len(written) + Len(transport) = Len(inputLines)
    /\ \A i \in 1 .. Len(written) :
          /\ written[i] = JoinLines(inputLines[i])
          /\ pushed[i] = <<RecordTextOf(inputLines[i])>>
    /\ Len(readable) <= Len(pushed)
    /\ \A j \in 1 .. Len(readable) :
          readable[j] = RecordTextOf(inputLines[Len(pushed) - Len(readable) + j])

RecordsFollowChunkOrderWitness ==
    /\ inputLines = <<(<<LineHel>>), (<<LineHel>>), (<<LineXStop, LineHel>>)>>
    /\ Len(written) = 3
    /\ Len(readable) = 2
    /\ Emitted(2) = <<"{data:", "Hel", ",finished:false}", JSON_LINE_SEPARATOR>>
    /\ readable[2] = <<"{data:", "X", "Hel", ",finished:true}", JSON_LINE_SEPARATOR>>

\* the number of records the consumer has taken from the readable side
Consumed == Len(pushed) - Len(readable)

Collides(chunks) ==
    \E i \in 1 .. Len(UpToFirstFinished(chunks)) : HasSeparator(ExpectedData(chunks[i]))

\* what is left to do before the consumer is in a terminal state: chunks to
\* transform and to read, the end of the stream to see, the return itself
StepsLeft ==
    IF cpc # "reading" THEN 0
    ELSE 2 * Len(transport) + Len(readable) + (IF ended THEN 0 ELSE 1) + 1

\* the guards of Transform, SourceEnds, ReadChunk and ReturnAtEnd
PipelineCanStep ==
    \/ transport # <<>>
    \/ transport = <<>> /\ ~ended
    \/ readable # <<>>
    \/ ended /\ readable = <<>>

\* C14 as stated: consumption never ends in an error state.
ConsumptionEndsStopOrEnded == cpc \in {"reading", "stop", "ended"}

ConsumptionStates ==
    /\ cpc \in {"reading", "stop", "ended", "threw"}
    /\ cpc = "reading" =>
          /\ \A i \in 1 .. Consumed : ~ExpectedFinished(inputLines[i])
          /\ responseStr = DataOfChunks(SubSeq(inputLines, 1, Consumed))
    /\ cpc = "stop" =>
          /\ \E i \in 1 .. Len(inputLines) : ExpectedFinished(inputLines[i])
          /\ responseStr = DataOfChunks(UpToFirstFinished(inputLines))
          /\ handlers => Len(onDataCalls) = Len(UpToFirstFinished(inputLines))
    /\ cpc = "ended" =>
          /\ \A i \in 1 .. Len(inputLines) : ~ExpectedFinished(inputLines[i])
          /\ ended /\ transport = <<>> /\ readable = <<>>
          /\ responseStr = DataOfChunks(inputLines)
    /\ cpc = "threw" <=> (Collides(inputLines) /\ cpc # "reading")

\* C14 amended: consumption of a stream that closes always terminates: in STOP on
\* the first finished record (no later record is decoded, accumulated or reported),
\* in ENDED when the stream closes with no finished record (the accumulated string
\* is returned), or, when a record up to the first finished one holds the
\* separator in its data, with the JSON.parse error thrown.
\* (termination: while reading some step is always possible, and every step
\* brings the consumer closer to a terminal state)
ConsumptionTerminates ==
    /\ []ConsumptionStates
    /\ [](cpc = "reading" => PipelineCanStep)
    /\ [][/\ cpc = "reading"
          /\ StepsLeft' < StepsLeft
          /\ cpc' # "reading" => StepsLeft' = 0]_vars

ConsumptionTerminatesWitness ==
    /\ inputLines = <<(<<LineHel>>), (<<LineXStop, LineHel>>), (<<LineLoStop>>)>>
    /\ cpc = "stop"
    /\ Len(written) = 3
    /\ handlers
    /\ onDataCalls = <<(<<"Hel">>), (<<"X", "Hel">>)>>

ConsumptionEndedWitness ==
    /\ inputLines = <<(<<LineHel>>), (<<LineDone, LineHel>>)>>
    /\ cpc = "ended"
    /\ responseStr = <<"Hel">>

----------------------------------------------------------------------------
(* Two withExponentialBackoff invocations in flight at once.  The first is  *)
(* the invocation of SpecBackoff; `other` holds the locals of the second.   *)

retryCountSharedAcrossCalls == retryCount

\* line 25: `let retryCount = 0` is a local of the call, captured by the
\* call's own shouldRetry and waitBeforeRetry closures
retryCountOfOther == other.retryCount

\* both calls are made with the same options
InitConcurrent ==
    /\ caller = "direct"
    /\ maxRetries \in 0 .. MaxConcurrentRetries
    /\ initialRetryDelayMS = DEFAULT_INITIAL_RETRY_DELAY_MS
    /\ maxJitterMS = 2
    /\ retryCount = 0
    /\ pc = "attempt"
    /\ delayMS = 0
    /\ result = NoResult
    /\ thrown = NoError
    /\ outcomes = <<>>
    /\ waits = <<>>
    /\ other = [NoInvocation EXCEPT !.pc = "attempt"]
    /\ apiResponse = "none"
    /\ log = <<>>
    /\ grs = "idle"
    /\ grsError = "none"
    /\ responseStream = NoStream
    /\ StreamIdle

\* try { return await fn(); } in the second invocation
OtherAttemptSucceeds ==
    /\ other.pc = "attempt"
    /\ \E v \in Results(caller) :
        other' = [other EXCEPT !.outcomes = Append(@, Success(v)),
                               !.result = v,
                               !.pc = "returned"]
    /\ UNCHANGED <<backoffVars, orchVars, streamVars>>

\* catch (err) { if (!shouldRetry()) throw err; await waitBeforeRetry(); ...
OtherAttemptFails ==
    /\ other.pc = "attempt"
    /\ \E e \in FnErrors(caller) :
        IF ~(retryCountOfOther < maxRetries)
        THEN other' = [other EXCEPT !.outcomes = Append(@, Failure(e)),
                                    !.pc = "thrown",
                                    !.thrown = e]
        ELSE \E jitterMS \in JitterDraws(maxJitterMS) :
                LET d == DelayOf(initialRetryDelayMS, jitterMS, retryCountOfOther)
                IN  other' = [other EXCEPT
                                 !.outcomes = Append(@, Failure(e)),
                                 !.pc = "waiting",
                                 !.delayMS = d,
                                 !.waits = Append(@, [count |-> retryCountOfOther,
                                                      jitter |-> jitterMS,
                                                      delay |-> d])]
    /\ UNCHANGED <<backoffVars, orchVars, streamVars>>

\* ... the wait resolves; retryCount++; next iteration
OtherWaitDone ==
    /\ other.pc = "waiting"
    /\ other' = [other EXCEPT !.retryCount = retryCountOfOther + 1,
                              !.delayMS = 0,
                              !.pc = "attempt"]
    /\ UNCHANGED <<backoffVars, orchVars, streamVars>>

NextOther == OtherAttemptSucceeds \/ OtherAttemptFails \/ OtherWaitDone

\* the event loop interleaves the steps of the two invocations in any order
NextConcurrent == NextBackoff \/ NextOther

SpecConcurrent == InitConcurrent /\ [][NextConcurrent]_vars

\* what one invocation does follows from the outcomes of its own attempts
\* and its own jitter draws alone
OwnRun(count, at, outs, ws, res, thr) ==
    /\ count = Len(ws) - (IF at = "waiting" THEN 1 ELSE 0)
    /\ Len(outs) = count + (IF at = "attempt" THEN 0 ELSE 1)
    /\ \A i \in 1 .. Len(outs) - 1 : ~outs[i].ok
    /\ \A j \in 1 .. Len(ws) :
          /\ ws[j].count = j - 1
          /\ ws[j].delay = DelayOf(initialRetryDelayMS, ws[j].jitter, j - 1)
    /\ at = "waiting" => ~outs[Len(outs)].ok
    /\ at = "returned" => outs[Len(outs)].ok /\ res = outs[Len(outs)].value
    /\ at = "thrown" => /\ ~outs[Len(outs)].ok
                        /\ thr = outs[Len(outs)].err
                        /\ Len(outs) = maxRetries + 1
    /\ at \in {"attempt", "waiting", "returned"} => thr = NoError

\* C15: two interleaved invocations each keep their own retry count from 0:
\* the attempts, delays and outcome of each follow from its own attempts'
\* outcomes, and a step of one leaves every local of the other as it was.
ConcurrentInvocationsIndependent ==
    /\ [](/\ OwnRun(retryCount, pc, outcomes, waits, result, thrown)
          /\ OwnRun(other.retryCount, other.pc, other.outcomes, other.waits,
                    other.result, other.thrown))
    /\ [][/\ backoffVars' # backoffVars => other' = other
          /\ other' # other => backoffVars' = backoffVars]_vars

\* the first invocation used up its retries and threw while the second,
\* having failed once, returned at its second attempt
ConcurrentInvocationsIndependentWitness ==
    /\ pc = "thrown"
    /\ retryCount = maxRetries
    /\ maxRetries >= 2
    /\ other.pc = "returned"
    /\ other.retryCount = 1
    /\ Len(other.outcomes) = 2

----------------------------------------------------------------------------
(* Properties settled on SpecBackoff, continued *)

\* C16: the retry budget is checked before the wait: no wait precedes the
\* first attempt, none follows the final failed attempt (the error is thrown
\* by the step that saw the failure), an invocation that made m attempts did
\* m - 1 waits, and the j-th wait (j = 0, 1, ...) has multiplier 2^j.
ChecksBeforeWaits ==
    /\ [](/\ outcomes = <<>> => waits = <<>> /\ pc = "attempt"
          /\ pc = "waiting" => Len(waits) = Len(outcomes)
          /\ pc = "attempt" => Len(waits) = Len(outcomes)
          /\ pc \in {"returned", "thrown"} => Len(waits) = Len(outcomes) - 1
          /\ pc = "thrown" => delayMS = 0
          /\ \A j \in 1 .. Len(waits) :
                /\ waits[j].count = j - 1
                /\ waits[j].delay
                     = (initialRetryDelayMS + waits[j].jitter) * 2 ^ (j - 1))
    /\ [][/\ pc' = "thrown" => pc = "attempt" /\ waits' = waits
          /\ retryCount' # retryCount => pc = "waiting" /\ waits' = waits]_vars

\* three attempts failed: two waits were made, with multipliers 1 and 2
ChecksBeforeWaitsWitness ==
    /\ pc = "thrown"
    /\ Len(outcomes) = 3
    /\ Len(waits) = 2
    /\ waits[2].count = 1
    /\ waits[2].delay = 2 * (initialRetryDelayMS + waits[2].jitter)
    /\ initialRetryDelayMS > 0

----------------------------------------------------------------------------
(* Properties settled on SpecPipeline: the observers *)

\* the data of the records accumulated when consumption has terminated
AccumulatedData ==
    LET chunks == UpToFirstFinished(inputLines)
    IN  [i \in 1 .. Len(chunks) |-> ExpectedData(chunks[i])]

\* C17 as stated: onData is called once per accumulated record, in order, with
\* its data; onEnd is called once whenever consumption terminates, by a
\* finished record or by the stream closing; the returned string does not
\* depend on the observers.
ObserversNotifiedOnEveryEnd ==
    cpc \in {"stop", "ended"} =>
        /\ handlers => onDataCalls = AccumulatedData /\ onEndCalls = 1
        /\ ~handlers => onDataCalls = <<>> /\ onEndCalls = 0
        /\ responseStr = DataOfChunks(UpToFirstFinished(inputLines))

\* what streamChatResponse does: onEnd is called on a finished record only
\* (line 71); the return at line 77 calls no observer
ObserversNotifiedOnFinishedRecord ==
    cpc \in {"stop", "ended"} =>
        /\ handlers => /\ onDataCalls = AccumulatedData
                       /\ onEndCalls = (IF cpc = "stop" THEN 1 ELSE 0)
        /\ ~handlers => onDataCalls = <<>> /\ onEndCalls = 0
        /\ responseStr = DataOfChunks(UpToFirstFinished(inputLines))

\* the stream closed with no finished record and onEnd was never called
StreamClosedWithoutOnEnd ==
    /\ handlers
    /\ cpc = "ended"
    /\ onDataCalls # <<>>
    /\ onEndCalls = 0

----------------------------------------------------------------------------
(* Properties settled on SpecOrch, continued *)

DefaultConfiguration ==
    /\ maxRetries = DEFAULT_MAX_RETRIES
    /\ initialRetryDelayMS = DEFAULT_INITIAL_RETRY_DELAY_MS
    /\ maxJitterMS = DEFAULT_MAX_JITTER_MS

\* C18: with the default configuration, whatever jitter was drawn for the
\* wait in progress (before retry k) and whatever jitter is drawn for the next
\* one (before retry k + 1), the next wait is strictly longer.
DefaultDelaysStrictlyIncrease ==
    (DefaultConfiguration /\ pc = "waiting" /\ retryCount + 1 < maxRetries) =>
        \A jitterMS \in JitterDraws(maxJitterMS) :
            DelayOf(initialRetryDelayMS, jitterMS, retryCount + 1) > delayMS

\* the worst case: the longest first wait, 1999 ms, with another retry to come
DefaultDelaysStrictlyIncreaseWitness ==
    /\ DefaultConfiguration
    /\ pc = "waiting"
    /\ retryCount = 0
    /\ delayMS = 1999
    /\ DelayOf(initialRetryDelayMS, 0, retryCount + 1) = 2000

----------------------------------------------------------------------------
(* Properties settled on SpecPipeline: how the records are grouped in reads *)

\* the consumer before its first read (lines 59-60)
ConsumerStart ==
    [responseStr |-> <<>>, onData |-> <<>>, onEnd |-> 0, status |-> "reading"]

\* one iteration of the for-await loop on the chunk jsonLines (lines 61-75);
\* nothing is read once the function has returned or thrown
ReadAs(st, jsonLines) ==
    IF st.status # "reading" THEN st ELSE ConsumeJsons(JsonsOf(jsonLines), 1, st)

RECURSIVE Grouped(_, _, _, _, _, _)
\* the consumer after the encoded records bufs were delivered in reads that
\* end after the records numbered in cuts (and after the last); with
\* emptyReads, a read holding no record precedes each of them
Grouped(bufs, cuts, emptyReads, i, cur, st) ==
    IF i > Len(bufs) THEN st
    ELSE LET cur1 == cur \o bufs[i]
         IN  IF i \in cuts \/ i = Len(bufs)
             THEN Grouped(bufs, cuts, emptyReads, i + 1, <<>>,
                          ReadAs(IF emptyReads THEN ReadAs(st, <<>>) ELSE st, cur1))
             ELSE Grouped(bufs, cuts, emptyReads, i + 1, cur1, st)

\* the encoded records the transform has pushed so far, in order
EncodedRecords == Concat(pushed)

\* C19: for the sequence of encoded records of a stream, every grouping of
\* the records into reads at record boundaries, with or without reads that
\* hold no record, gives the consumer the same returned string (and the same
\* end); it is the string the run at hand returns.
BatchingInvariance ==
    transport = <<>> =>
        LET oneByOne == Grouped(EncodedRecords, 1 .. Len(EncodedRecords), FALSE,
                                1, <<>>, ConsumerStart)
        IN  /\ \A cuts \in SUBSET (1 .. Len(EncodedRecords) - 1) :
                \A emptyReads \in BOOLEAN :
                    LET st == Grouped(EncodedRecords, cuts, emptyReads,
                                      1, <<>>, ConsumerStart)
                    IN  /\ st.responseStr = oneByOne.responseStr
                        /\ st.status = oneByOne.status
            /\ cpc # "reading" =>
                  /\ responseStr = oneByOne.responseStr
                  /\ cpc = (IF oneByOne.status = "reading" THEN "ended"
                            ELSE oneByOne.status)

\* three records, none finished, reached the consumer (four groupings, each
\* with or without empty reads) and it returned at the end of the stream
BatchingInvarianceWitness ==
    /\ Len(EncodedRecords) = 3
    /\ cpc = "ended"
    /\ responseStr # <<>>
    /\ ~Collides(inputLines)

----------------------------------------------------------------------------
(* Properties settled on SpecBackoffFair *)

\* C20: for every maxRetries (0 and negative values give a single attempt),
\* when every attempt and every wait completes the invocation eventually
\* returns or throws, and retryCount never exceeds max(maxRetries, 0).
BackoffTerminates ==
    /\ [](retryCount <= (IF maxRetries > 0 THEN maxRetries ELSE 0))
    /\ []((pc \in {"returned", "thrown"} /\ maxRetries <= 0) => Len(outcomes) = 1)
    /\ <>(pc \in {"returned", "thrown"})

\* a negative maxRetries: the only attempt failed and its error was thrown
BackoffTerminatesWitness ==
    /\ maxRetries < 0
    /\ pc = "thrown"
    /\ Len(outcomes) = 1
    /\ retryCount = 0

====
